---- MODULE Spec2Model ----
\* Conversations history API: a Conversation -> Block -> Response tree kept as
\* one JSON document per entity in an object store (src/s3_utils.py), read
\* through a process-wide TTL cache (src/main.py:43,95-120) and pruned by a
\* recursive field projector (src/main.py:52-93).
\*
\* Encodings
\*   * a JSON document is a function from field names to values;
\*   * an Optional value is a sequence of length 0 (None) or 1 (the value);
\*   * a field-selection string is the sequence of its comma-separated paths,
\*     each path the sequence of its dot-separated segments; the empty or
\*     absent selection (falsy in Python, never split) is <<>>;
\*   * an S3 key is the tuple of the ids it is built from;
\*   * time is one clock `now`, read by time.time() and by the cache timer.
EXTENDS Integers, Sequences, FiniteSets, TLC

VARIABLES
    store,   \* the bucket: S3 key -> JSON document
    cache,   \* the TTLCache: hash key -> [value, expires]
    now,     \* the clock
    made,    \* how many uuids of each kind were drawn, and calls/reads spent
    ret,     \* the last handler call and what it returned or raised
    hist,    \* history: what the run did so far, for stating the properties
    threads  \* the calls in flight: where each worker thread is in its handler

vars == <<store, cache, now, made, ret, hist, threads>>

-----------------------------------------------------------------------------
\* Bounds of the model.

\* POST, PUT and DELETE calls plus clock ticks in a run, and GET calls in a run.
MaxCalls == 3
MaxReads == 3

\* Program constants.
ttl == 300000
maxsize == 2048

\* The clock advances in steps of half a time-to-live.
TickStep == ttl \div 2

\* uuid4 values, in the order the process draws them.
ConversationUuids == <<"c1", "c2", "c3", "c4", "c5">>
BlockUuids == <<"b1", "b2", "b3", "b4", "b5">>
ResponseUuids == <<"r1", "r2", "r3", "r4", "r5">>

\* An id no uuid4 call has produced (a caller may still name it).
NoSuchId == "zz"

None == <<>>
Some(v) == <<v>>

Min(S) == CHOOSE x \in S : \A y \in S : x <= y

Range(s) == {s[i] : i \in 1..Len(s)}

Restrict(f, S) == [x \in S |-> f[x]]

\* F(e), as LET r == e IN F(r), with e evaluated once.
With(e, F(_)) == CHOOSE x \in {F(r) : r \in {e}} : TRUE

-----------------------------------------------------------------------------
\* Field selections.

NoFields == <<>>
FBlocks == << <<"blocks">> >>
FBlocksResponses == << <<"blocks", "responses">> >>
FStatus == << <<"status">> >>
FMyBlocks == << <<"myblocks">> >>

\* Segments whose text contains / ends with "blocks", starts with "responses".
ContainsBlocks == {"blocks", "myblocks"}
EndsWithBlocks == {"blocks", "myblocks"}
StartsWithResponses == {"responses"}

\* "blocks" in fields (substring of the raw string: it holds no '.' or ',').
HasSubstringBlocks(fields) ==
    \E i \in 1..Len(fields) : \E j \in 1..Len(fields[i]) :
        fields[i][j] \in ContainsBlocks

\* "blocks.responses" in fields.
HasSubstringBlocksResponses(fields) ==
    \E i \in 1..Len(fields) : \E j \in 1..(Len(fields[i]) - 1) :
        /\ fields[i][j] \in EndsWithBlocks
        /\ fields[i][j + 1] \in StartsWithResponses

\* any(field.startswith("blocks.") for field in fields.split(','))
AnyStartsWithBlocksDot(fields) ==
    \E i \in 1..Len(fields) : Len(fields[i]) >= 2 /\ fields[i][1] = "blocks"

\* any(field.startswith("blocks.responses.") for field in fields.split(','))
AnyStartsWithBlocksResponsesDot(fields) ==
    \E i \in 1..Len(fields) :
        Len(fields[i]) >= 3 /\ fields[i][1] = "blocks" /\ fields[i][2] = "responses"

\* The condition of read_conversation.
WantsBlocks(fields) ==
    fields # NoFields /\ (HasSubstringBlocks(fields) \/ AnyStartsWithBlocksDot(fields))

\* Faulty variant: responses wanted whatever the selection.
WantsResponsesAlways(fields) == TRUE

\* The condition of fetch_block.
WantsResponses(fields) ==
    fields # NoFields
    /\ (HasSubstringBlocksResponses(fields) \/ AnyStartsWithBlocksResponsesDot(fields))

-----------------------------------------------------------------------------
\* Document Store Gateway.

get_s3_key(conversation_id, block_id, response_id) ==
    IF response_id # None THEN <<conversation_id, block_id[1], response_id[1]>>
    ELSE IF block_id # None THEN <<conversation_id, block_id[1]>>
    ELSE <<conversation_id>>

ConversationKey(c) == get_s3_key(c, None, None)
BlockKey(c, b) == get_s3_key(c, Some(b), None)
ResponseKey(c, b, r) == get_s3_key(c, Some(b), Some(r))

\* get_object: the document, or the ClientError code of a missing key.
Stored(s, key) == key \in DOMAIN s

put_json_to_s3(s, key, data) == (key :> data) @@ s

\* Faulty variant: a put that raises after it has written.
put_raises_after_write(s, key, data) == put_json_to_s3(s, key, data)

\* put_json_to_s3 when put_object raises: nothing is written, and the handler
\* sees an HTTPException with the status of the error.
put_raises(s, key, data) == s

\* The status of that exception: the error code of a ClientError, 403 for
\* missing credentials.
PutErrors == {"InternalError", "403"}

\* Faulty variant: a delete that takes the documents below the key with it.
delete_cascading(s, key) ==
    Restrict(s, {k \in DOMAIN s :
                    ~(Len(k) >= Len(key) /\ SubSeq(k, 1, Len(key)) = key)})

delete_json_from_s3(s, key) == Restrict(s, DOMAIN s \ {key})

-----------------------------------------------------------------------------
\* Fetch Cache: cachetools.TTLCache(maxsize=2048, ttl=300000) shared by the
\* three @cached functions under key=hash_key.  An entry is live while
\* now < expires; a store first drops every expired entry.

\* hash_key: the tuple of the positional arguments.  Python tuples of
\* different element types are never equal, so the types lead the key.
hash_key(types, args) == <<types>> \o args

FetchBlocksKey(c, ids, fields) == hash_key("str,tuple,str", <<c, ids, fields>>)
FetchBlocksKey2(c, ids) == hash_key("str,tuple", <<c, ids>>)
FetchBlockKey(c, b, fields) == hash_key("str,str,str", <<c, b, fields>>)
FetchResponsesKey(c, b, ids) == hash_key("str,str,tuple", <<c, b, ids>>)

Live(ch, k) == k \in DOMAIN ch /\ now < ch[k].expires

Expire(ch) == Restrict(ch, {k \in DOMAIN ch : now < ch[k].expires})

\* Faulty variant: a store whose entry is expired from the start.
CacheSetExpired(ch, k, v) == (k :> [value |-> v, expires |-> now]) @@ Expire(ch)

CacheSet(ch, k, v) == (k :> [value |-> v, expires |-> now + ttl]) @@ Expire(ch)

-----------------------------------------------------------------------------
\* Field Projector.

default_conversation_fields ==
    {"id", "createdBy", "createdAt", "updatedAt", "status", "summaryText",
     "summaryType", "blockIds"}
default_block_fields == {"id", "inputText", "responseIds", "createdBy", "createdAt"}
default_response_fields == {"id", "source", "responseType", "requestedAt"}

nested_default_fields ==
    [blocks |-> default_block_fields, responses |-> default_response_fields]

\* nested_default_fields.get(key, [])
NestedDefaults(key) ==
    IF key \in DOMAIN nested_default_fields THEN nested_default_fields[key] ELSE {}

\* The Python type of the value held under a field name (src/models.py).
OptionalFields ==
    {"blocks", "responses", "requestedAt", "respondedAt", "payload", "summaryText",
     "summaryType", "displayName"}
ListOfDictFields == {"blocks", "responses"}
ListOfStrFields == {"blockIds", "responseIds"}
DictFields == {"createdBy", "payload"}
IntFields == {"createdAt", "updatedAt", "respondedAt", "requestedAt"}

IsNone(key, value) == key \in OptionalFields /\ value = None
IsListOfDict(key, value) == key \in ListOfDictFields /\ value # None
IsListOfStr(key, value) == key \in ListOfStrFields
IsDict(key, value) ==
    IF key \in OptionalFields THEN key \in DictFields /\ value # None
    ELSE key \in DictFields
IsInt(key, value) ==
    IF key \in OptionalFields THEN key \in IntFields /\ value # None
    ELSE key \in IntFields

\* include_fields (lines 57-69): the entity's defaults, plus the nested
\* entity's defaults for every requested path that starts at blocks/responses.
IncludeFields(default_fields, additional_fields) ==
    default_fields \cup UNION {NestedDefaults(f[1]) : f \in additional_fields}

\* field_parts (lines 72-78): its keys, and the suffix paths filed under a key.
AllPaths(default_fields, additional_fields) ==
    {<<f>> : f \in IncludeFields(default_fields, additional_fields)}
        \cup additional_fields

FieldPartKeys(default_fields, additional_fields) ==
    {p[1] : p \in AllPaths(default_fields, additional_fields)}

NestedFields(default_fields, additional_fields, key) ==
    {Tail(p) : p \in {q \in AllPaths(default_fields, additional_fields) :
                        q[1] = key /\ Len(q) > 1}}

\* filter_nested_fields raises TypeError when it recurses into None or an int
\* (`key in data`); recursing into a str yields {} as long as no field name is
\* a substring of the text, which holds of every value of the model.
RECURSIVE FilterRaises(_, _, _)
FilterRaises(data, default_fields, additional_fields) ==
    \E key \in FieldPartKeys(default_fields, additional_fields) \cap DOMAIN data :
        LET nested == NestedFields(default_fields, additional_fields, key)
            value == data[key]
        IN  /\ nested # {}
            /\ \/ IsNone(key, value)
               \/ IsInt(key, value)
               \/ /\ IsListOfDict(key, value)
                  /\ \E i \in 1..Len(value[1]) :
                        FilterRaises(value[1][i], NestedDefaults(key), nested)
               \/ /\ IsDict(key, value)
                  /\ FilterRaises(IF key \in OptionalFields THEN value[1] ELSE value,
                                  NestedDefaults(key), nested)

\* Faulty variant: a projector that drops one of the fields it is given.
DropOne(data, default_fields, additional_fields) ==
    IF DOMAIN data = {} THEN data
    ELSE Restrict(data, DOMAIN data \ {CHOOSE k \in DOMAIN data : TRUE})

\* Faulty variant: a projector that copies the whole document.
CopyAll(data, default_fields, additional_fields) == data

RECURSIVE filter_nested_fields(_, _, _)
filter_nested_fields(data, default_fields, additional_fields) ==
    [key \in FieldPartKeys(default_fields, additional_fields) \cap DOMAIN data |->
        LET nested == NestedFields(default_fields, additional_fields, key)
            value == data[key]
        IN  IF nested = {} THEN value
            ELSE IF IsListOfDict(key, value)
            THEN Some([i \in 1..Len(value[1]) |->
                        filter_nested_fields(value[1][i], NestedDefaults(key), nested)])
            ELSE IF IsListOfStr(key, value)
            THEN [i \in 1..Len(value) |-> <<>>]
            ELSE IF IsDict(key, value) /\ key \in OptionalFields
            THEN Some(filter_nested_fields(value[1], NestedDefaults(key), nested))
            ELSE IF IsDict(key, value)
            THEN filter_nested_fields(value, NestedDefaults(key), nested)
            ELSE IF key \in OptionalFields THEN Some(<<>>)
            ELSE <<>>]

\* fields.split(',') if fields else []
SplitFields(fields) == Range(fields)

-----------------------------------------------------------------------------
\* Hydration: the three cached fetch functions.  Each returns the value (or
\* the error), the cache as it leaves it, and the storage gets it issued.

\* Faulty variant: a hit that renews the entry's expiry.
HitSliding(ch, k) ==
    [ok |-> TRUE, val |-> ch[k].value,
     cache |-> [ch EXCEPT ![k].expires = now + ttl], gets |-> <<>>]

Hit(ch, k) == [ok |-> TRUE, val |-> ch[k].value, cache |-> ch, gets |-> <<>>]
\* Faulty variant: a missing document read as an empty one.
ReadEmpty(ch, gets) == [ok |-> TRUE, val |-> <<>>, cache |-> ch, gets |-> gets]
Raised(ch, gets) == [ok |-> FALSE, val |-> <<>>, cache |-> ch, gets |-> gets]
Computed(ch, k, v, gets) ==
    [ok |-> TRUE, val |-> v, cache |-> CacheSet(ch, k, v), gets |-> gets]

fetch_responses(s, ch, c, b, response_ids) ==
    LET k == FetchResponsesKey(c, b, response_ids)
        keys == [i \in 1..Len(response_ids) |-> ResponseKey(c, b, response_ids[i])]
        missing == {i \in 1..Len(response_ids) : ~Stored(s, keys[i])}
    IN  IF Live(ch, k) THEN Hit(ch, k)
        ELSE IF missing # {} THEN Raised(ch, SubSeq(keys, 1, Min(missing)))
        ELSE Computed(ch, k, [i \in 1..Len(response_ids) |-> s[keys[i]]], keys)

\* block.get('responseIds', [])
ResponseIdsOf(block) ==
    IF "responseIds" \in DOMAIN block THEN block["responseIds"] ELSE <<>>

fetch_block(s, ch, c, b, fields) ==
    LET k == FetchBlockKey(c, b, fields)
        key == BlockKey(c, b)
    IN  IF Live(ch, k) THEN Hit(ch, k)
        ELSE IF ~Stored(s, key) THEN Raised(ch, <<key>>)
        ELSE IF WantsResponses(fields)
        THEN With(fetch_responses(s, ch, c, b, ResponseIdsOf(s[key])),
                  LAMBDA r :
                    IF ~r.ok THEN Raised(r.cache, <<key>> \o r.gets)
                    ELSE Computed(r.cache, k,
                                  ("responses" :> Some(r.val)) @@ s[key],
                                  <<key>> \o r.gets))
        ELSE Computed(ch, k, s[key], <<key>>)

\* Faulty variant: the loop of fetch_blocks collecting the blocks in reverse.
RECURSIVE FetchBlocksReversed(_, _, _, _, _, _, _)
FetchBlocksReversed(s, ch, c, block_ids, fields, blocks, gets) ==
    IF Len(blocks) = Len(block_ids)
    THEN [ok |-> TRUE, val |-> blocks, cache |-> ch, gets |-> gets]
    ELSE With(fetch_block(s, ch, c, block_ids[Len(blocks) + 1], fields),
              LAMBDA r :
                IF ~r.ok THEN [r EXCEPT !.val = <<>>, !.gets = gets \o r.gets]
                ELSE FetchBlocksReversed(s, r.cache, c, block_ids, fields,
                                         <<r.val>> \o blocks, gets \o r.gets))

\* The loop of fetch_blocks: one fetch_block per id, in order, until one raises.
RECURSIVE FetchBlocksLoop(_, _, _, _, _, _, _)
FetchBlocksLoop(s, ch, c, block_ids, fields, blocks, gets) ==
    IF Len(blocks) = Len(block_ids)
    THEN [ok |-> TRUE, val |-> blocks, cache |-> ch, gets |-> gets]
    ELSE With(fetch_block(s, ch, c, block_ids[Len(blocks) + 1], fields),
              LAMBDA r :
                IF ~r.ok THEN Raised(r.cache, gets \o r.gets)
                ELSE FetchBlocksLoop(s, r.cache, c, block_ids, fields,
                                     Append(blocks, r.val), gets \o r.gets))

\* fetch_blocks(conversation_id, block_ids, fields), cached under k.
FetchBlocksCached(s, ch, c, block_ids, fields, k) ==
    IF Live(ch, k) THEN Hit(ch, k)
    ELSE With(FetchBlocksLoop(s, ch, c, block_ids, fields, <<>>, <<>>),
              LAMBDA r : IF ~r.ok THEN r ELSE Computed(r.cache, k, r.val, r.gets))

fetch_blocks(s, ch, c, block_ids, fields) ==
    FetchBlocksCached(s, ch, c, block_ids, fields, FetchBlocksKey(c, block_ids, fields))

\* Faulty variant: the call of list_conversations resolving responses.
fetch_blocks_and_responses(s, ch, c, block_ids) ==
    FetchBlocksCached(s, ch, c, block_ids, FBlocksResponses,
                      FetchBlocksKey2(c, block_ids))

\* The call of list_conversations: two positional arguments, fields = ''.
fetch_blocks2(s, ch, c, block_ids) ==
    FetchBlocksCached(s, ch, c, block_ids, NoFields, FetchBlocksKey2(c, block_ids))

-----------------------------------------------------------------------------
\* Models (src/models.py) and the request bodies the callers send.

ConversationFields ==
    {"id", "createdBy", "createdAt", "updatedAt", "status", "summaryText",
     "summaryType", "blockIds", "blocks"}
BlockFields == {"id", "inputText", "responseIds", "createdBy", "createdAt", "responses"}
ResponseFields == {"id", "source", "responseType", "payload", "requestedAt", "respondedAt"}

\* Model(**data).dict(): the model's fields only (extra keys are ignored),
\* every one of them present, an unset Optional one as None.
ModelDict(fields, data) ==
    [f \in fields |-> IF f \in DOMAIN data THEN data[f] ELSE None]

ConversationDict(data) == ModelDict(ConversationFields, data)
BlockDict(data) == ModelDict(BlockFields, data)
ResponseDict(data) == ModelDict(ResponseFields, data)

\* dict.update
Update(data, other) == other @@ data

User(name) == [id |-> name, email |-> name, displayName |-> Some(name)]
Caller == User("u1")
DefaultCreator ==
    [id |-> "himanshu@bruviti_com", email |-> "himanshu@bruviti.com",
     displayName |-> Some("Himanshu")]

\* A well-formed response and block, as a caller may embed them in a body.
EmbeddedResponse ==
    ResponseDict([id |-> NoSuchId, source |-> "embedded", responseType |-> "text",
                  payload |-> Some([text |-> "hi"]), respondedAt |-> Some(0)])
EmbeddedBlock ==
    BlockDict([id |-> NoSuchId, inputText |-> "embedded", responseIds |-> <<>>,
               createdBy |-> Caller, createdAt |-> 0])

Queries == {"hello"}

\* partial_conversation.dict(exclude_unset=True): the fields the caller set.
PartialConversations ==
    { [createdBy |-> Caller],
      [createdBy |-> Caller, blockIds |-> <<NoSuchId>>, summaryText |-> Some("custom"),
       blocks |-> Some(<<EmbeddedBlock>>)] }

\* partial_block.dict(exclude_unset=True).
PartialBlocks ==
    { [inputText |-> "more"] }

\* partial_response.dict(exclude_unset=True); the payload is always sent.
PartialResponses ==
    { [source |-> "agent", responseType |-> "text", payload |-> Some([text |-> "hi"])] }

\* The ids drawn so far: made.blocks[i] is the conversation the i-th block uuid
\* was created under, made.responses[i] the block of the i-th response uuid.
ConversationIds == {ConversationUuids[i] : i \in 1..made.conversations}
BlockIds == {BlockUuids[i] : i \in 1..Len(made.blocks)}
ResponseIds == {ResponseUuids[i] : i \in 1..Len(made.responses)}

\* The orders in which a body may list a set of ids.
Orderings(S) ==
    {s \in UNION {[1..n -> S] : n \in {Cardinality(S)}} :
        \A i, j \in 1..Len(s) : i # j => s[i] # s[j]}

\* The bodies of the PUT handlers: whole documents.
ConversationBodies(c) ==
    { ConversationDict([id |-> c, createdBy |-> Caller, createdAt |-> 0,
                        updatedAt |-> 0, status |-> "CLOSED",
                        summaryText |-> Some("edited"), summaryType |-> Some("UNKNOWN"),
                        blockIds |-> ids]) : ids \in Orderings(BlockIds) }

\* One body keeps the id of the path, the other carries another.
BlockBodies(b) ==
    { BlockDict([id |-> i, inputText |-> "edited", responseIds |-> <<>>,
                 createdBy |-> Caller, createdAt |-> 0]) : i \in {b, NoSuchId} }

ResponseBodies(r) ==
    { ResponseDict([id |-> r, source |-> "user", responseType |-> "text",
                    payload |-> Some([text |-> "edited"]), respondedAt |-> Some(0)]) }

\* The path parameters the callers send: the ids of the entities created, each
\* under the parent it was created under.
ConversationArgs == ConversationIds
BlockArgs == {<<made.blocks[i], BlockUuids[i]>> : i \in 1..Len(made.blocks)}
ResponseArgs ==
    {made.responses[i] \o <<ResponseUuids[i]>> : i \in 1..Len(made.responses)}

\* The field selections the callers send.
FResponses == << <<"responses">> >>
ConversationSelections == {NoFields, FBlocks, FBlocksResponses, FMyBlocks}
ListSelections == {NoFields, FBlocksResponses}
BlockSelections == {NoFields, FResponses}
ResponseSelections == {NoFields}

-----------------------------------------------------------------------------
\* The handlers.  `ret` records the call, the status it ended with ("200", or
\* the status_code of the HTTPException it raised), the value returned and the
\* keys of the storage gets it issued, in order.

Returned(op, args, out, gets) ==
    [op |-> op, args |-> args, status |-> "200", out |-> out, gets |-> gets]

Failed(op, args, status, gets) ==
    [op |-> op, args |-> args, status |-> status, out |-> <<>>, gets |-> gets]

\* History variables.
\*   filled[<<c, ids, fields>>]: when a read_conversation of c, finding blockIds
\*     ids, under selection fields, last obtained the blocks without having
\*     obtained them less than ttl before (the reads that have to fetch);
\*   trail: how far the run is into "create a conversation, create one response
\*     under its first block, read it with blocks.responses", one call directly
\*     after the other, and with which values;
\*   misfiled: the block keys a PUT stored a document of another id under;
\*   hits: the keys of filled that a later read, at a later time and less than
\*     ttl after the filling, obtained again;
\*   refilled: the keys of filled that were in hits when, ttl or more after
\*     the filling, a read obtained the blocks anew.
\* The handlers are plain functions, which the framework runs on worker
\* threads: two calls can be in flight at once.  A thread holds the handler it
\* runs, its arguments, the id it drew, the child it built, the parent as it
\* read it, whether that read went to storage, and whether the call overlapped
\* with the other thread's call.
Threads == 1..2

Idle ==
    [pc |-> "idle", op |-> "", args |-> <<>>, c |-> "", b |-> "", id |-> "",
     child |-> <<>>, parent |-> <<>>, miss |-> FALSE, overlapped |-> FALSE]

NoThreads == [t \in Threads |-> Idle]

InFlight(thread) == thread.pc \in {"put_child", "get_parent", "put_parent"}

\* Thread t enters a handler while the others are where they are.
Enter(t, thread) ==
    [u \in Threads |->
        IF u = t
        THEN [thread EXCEPT !.overlapped = \E v \in Threads \ {t} : InFlight(threads[v])]
        ELSE IF InFlight(threads[u]) THEN [threads[u] EXCEPT !.overlapped = TRUE]
        ELSE threads[u]]

NoTrail ==
    [stage |-> "none", c |-> "", b |-> "", q |-> "", s |-> "", r |-> "",
     plain |-> FALSE]
OffTrail == [NoTrail EXCEPT !.stage = "other"]

Fill(filled, k) ==
    IF k \in DOMAIN filled /\ now < filled[k] + ttl THEN filled
    ELSE (k :> now) @@ filled

Served(h, k) ==
    IF k \in DOMAIN h.filled /\ now < h.filled[k] + ttl
    THEN IF h.filled[k] < now THEN h.hits \cup {k} ELSE h.hits
    ELSE h.hits \ {k}

Refetched(h, k) ==
    IF k \in h.hits /\ now >= h.filled[k] + ttl THEN h.refilled \cup {k}
    ELSE h.refilled

Init ==
    /\ store = <<>>
    /\ cache = <<>>
    /\ now = 0
    /\ made = [conversations |-> 0, blocks |-> <<>>, responses |-> <<>>,
               calls |-> 0, reads |-> 0]
    /\ ret = Returned("start", <<>>, <<>>, <<>>)
    /\ hist = [filled |-> <<>>, trail |-> NoTrail, misfiled |-> {}, hits |-> {},
               refilled |-> {}]
    /\ threads = NoThreads

\* Faulty variant: a conversation built without the id of its paired block.
ConversationUnpaired(id, block_id, query, partial_conversation) ==
    ConversationDict(Update([id |-> id, status |-> "OPEN", summaryText |-> Some(query),
                             summaryType |-> Some("UNKNOWN"), createdAt |-> now,
                             updatedAt |-> now, blockIds |-> <<>>],
                            partial_conversation))

\* The body of create_conversation up to its two puts.
NewConversation(id, block_id, query, partial_conversation) ==
    LET conversation_data ==
            Update([id |-> id, status |-> "OPEN", summaryText |-> Some(query),
                    summaryType |-> Some("UNKNOWN"), createdAt |-> now,
                    updatedAt |-> now, blockIds |-> <<>>],
                   partial_conversation)
        conversation == ConversationDict(conversation_data)
    IN  [conversation EXCEPT !["blockIds"] = Append(@, block_id)]

NewBlockOf(conversation, block_id, query) ==
    BlockDict([id |-> block_id, inputText |-> query, responseIds |-> <<>>,
               createdAt |-> now, createdBy |-> conversation["createdBy"]])

create_conversation(query, partial_conversation) ==
    /\ made.calls < MaxCalls
    /\ LET id == ConversationUuids[made.conversations + 1]
           block_id == BlockUuids[Len(made.blocks) + 1]
           conversation == NewConversation(id, block_id, query, partial_conversation)
           new_block == NewBlockOf(conversation, block_id, query)
       IN  /\ store' = put_json_to_s3(
                           put_json_to_s3(store, ConversationKey(id), conversation),
                           BlockKey(id, block_id), new_block)
           /\ ret' = Returned("create_conversation", <<query, partial_conversation>>,
                              conversation, <<>>)
           /\ made' = [made EXCEPT !.conversations = @ + 1,
                                   !.blocks = Append(@, id),
                                   !.calls = @ + 1]
           /\ hist' = [hist EXCEPT
                         !.trail = [stage |-> "created", c |-> id, b |-> block_id,
                                    q |-> query, s |-> "", r |-> "",
                                    plain |-> "blockIds" \notin DOMAIN partial_conversation]]
    /\ UNCHANGED <<cache, now>>
    /\ UNCHANGED threads

\* conversation.get('blockIds', [])
BlockIdsOf(conversation) ==
    IF "blockIds" \in DOMAIN conversation THEN conversation["blockIds"] ELSE <<>>

\* The end of a read handler: the projection of the document it built.
Projected(op, args, data, default_fields, fields, gets) ==
    IF FilterRaises(data, default_fields, SplitFields(fields))
    THEN Failed(op, args, "500", gets)
    ELSE Returned(op, args,
                  filter_nested_fields(data, default_fields, SplitFields(fields)),
                  gets)

\* What read_conversation does after the root get: hydrate, then project.
\* `fetched` tells whether fetch_blocks returned the blocks.
ReadConversationResult(s, ch, c, fields) ==
    LET key == ConversationKey(c)
        args == <<c, fields>>
    IN  IF ~WantsBlocks(fields)
        THEN [cache |-> ch, fetched |-> FALSE,
              ret |-> Projected("read_conversation", args, s[key],
                                default_conversation_fields, fields, <<key>>)]
        ELSE With(fetch_blocks(s, ch, c, BlockIdsOf(s[key]), fields),
                  LAMBDA h :
                    IF ~h.ok
                    THEN [cache |-> h.cache, fetched |-> FALSE,
                          ret |-> Failed("read_conversation", args, "500",
                                         <<key>> \o h.gets)]
                    ELSE With(("blocks" :> Some(h.val)) @@ s[key],
                              LAMBDA hydrated :
                                [cache |-> h.cache, fetched |-> TRUE,
                                 ret |-> Projected("read_conversation", args, hydrated,
                                                   default_conversation_fields, fields,
                                                   <<key>> \o h.gets)]))

read_conversation(c, fields) ==
    /\ made.reads < MaxReads
    /\ IF ~Stored(store, ConversationKey(c))
       THEN /\ ret' = Failed("read_conversation", <<c, fields>>, "500",
                             <<ConversationKey(c)>>)
            /\ cache' = cache
            /\ hist' = [hist EXCEPT !.trail = OffTrail]
       ELSE \E r \in {ReadConversationResult(store, cache, c, fields)} :
                /\ ret' = r.ret
                /\ cache' = r.cache
                /\ hist' = [hist EXCEPT
                              !.trail = IF /\ @.stage = "responded" /\ @.c = c
                                           /\ fields = FBlocksResponses
                                        THEN [@ EXCEPT !.stage = "read"]
                                        ELSE OffTrail,
                              !.filled = IF r.fetched
                                         THEN Fill(@, <<c, BlockIdsOf(store[ConversationKey(c)]),
                                                        fields>>)
                                         ELSE @,
                              !.hits = IF r.fetched
                                       THEN Served(hist, <<c, BlockIdsOf(store[ConversationKey(c)]),
                                                           fields>>)
                                       ELSE @,
                              !.refilled = IF r.fetched
                                           THEN Refetched(hist, <<c, BlockIdsOf(store[ConversationKey(c)]),
                                                                  fields>>)
                                           ELSE @]
    /\ made' = [made EXCEPT !.reads = @ + 1]
    /\ UNCHANGED <<store, now>>
    /\ UNCHANGED threads

update_conversation(c, conversation) ==
    /\ made.calls < MaxCalls
    /\ store' = put_json_to_s3(store, ConversationKey(c), conversation)
    /\ ret' = Returned("update_conversation", <<c>>, conversation, <<>>)
    /\ made' = [made EXCEPT !.calls = @ + 1]
    /\ hist' = [hist EXCEPT !.trail = OffTrail]
    /\ UNCHANGED <<cache, now>>
    /\ UNCHANGED threads

delete_conversation(c) ==
    /\ made.calls < MaxCalls
    /\ store' = delete_json_from_s3(store, ConversationKey(c))
    /\ ret' = Returned("delete_conversation", <<c>>, <<>>, <<>>)
    /\ made' = [made EXCEPT !.calls = @ + 1]
    /\ hist' = [hist EXCEPT !.trail = OffTrail]
    /\ UNCHANGED <<cache, now>>
    /\ UNCHANGED threads

\* list_objects_v2 returns the keys under the prefix in key order; the loop
\* keeps those one level deep: the conversation roots.
ListedConversations ==
    SelectSeq(ConversationUuids, LAMBDA c : Stored(store, ConversationKey(c)))

\* The loop of list_conversations over the listed roots, until one raises.
RECURSIVE ListLoop(_, _, _, _, _)
ListLoop(ch, roots, fields, conversations, gets) ==
    IF Len(conversations) = Len(roots)
    THEN [cache |-> ch,
          ret |-> Returned("list_conversations", <<fields>>, conversations, gets)]
    ELSE LET key == ConversationKey(roots[Len(conversations) + 1])
             conversation == store[key]
         IN  With(fetch_blocks2(store, ch, conversation["id"], BlockIdsOf(conversation)),
                  LAMBDA h :
                    IF ~h.ok
                    THEN [cache |-> h.cache,
                          ret |-> Failed("list_conversations", <<fields>>, "500",
                                         gets \o <<key>> \o h.gets)]
                    ELSE With(Projected("list_conversations", <<fields>>,
                                        ("blocks" :> Some(h.val)) @@ conversation,
                                        default_conversation_fields, fields,
                                        gets \o <<key>> \o h.gets),
                              LAMBDA p :
                                IF p.status # "200" THEN [cache |-> h.cache, ret |-> p]
                                ELSE ListLoop(h.cache, roots, fields,
                                              Append(conversations, p.out), p.gets)))

list_conversations(fields) ==
    /\ made.reads < MaxReads
    /\ \E r \in {ListLoop(cache, ListedConversations, fields, <<>>, <<>>)} :
          ret' = r.ret /\ cache' = r.cache
    /\ made' = [made EXCEPT !.reads = @ + 1]
    /\ hist' = [hist EXCEPT !.trail = OffTrail]
    /\ UNCHANGED <<store, now>>
    /\ UNCHANGED threads

\* The block a create_block call builds from its body.
NewBlock(block_id, partial_block) ==
    BlockDict(Update([id |-> block_id, createdAt |-> now, responseIds |-> <<>>,
                      createdBy |-> IF "createdBy" \in DOMAIN partial_block
                                    THEN partial_block["createdBy"]
                                    ELSE DefaultCreator],
                     partial_block))

\* conversation['blockIds'].append(block.id)
AppendBlockId(conversation, block_id) ==
    [conversation EXCEPT !["blockIds"] = Append(@, block_id)]

create_block(c, partial_block) ==
    /\ made.calls < MaxCalls
    /\ LET block_id == BlockUuids[Len(made.blocks) + 1]
           block == NewBlock(block_id, partial_block)
           s1 == put_json_to_s3(store, BlockKey(c, block_id), block)
           key == ConversationKey(c)
       IN  IF ~Stored(s1, key)
           THEN /\ store' = s1
                /\ ret' = Failed("create_block", <<c, partial_block>>, "NoSuchKey",
                                 <<key>>)
           ELSE /\ store' = put_json_to_s3(s1, key, AppendBlockId(s1[key], block_id))
                /\ ret' = Returned("create_block", <<c, partial_block>>, block, <<key>>)
    /\ made' = [made EXCEPT !.blocks = Append(@, c), !.calls = @ + 1]
    /\ hist' = [hist EXCEPT !.trail = OffTrail]
    /\ UNCHANGED <<cache, now>>
    /\ UNCHANGED threads

read_block(c, b, fields) ==
    /\ made.reads < MaxReads
    /\ LET key == BlockKey(c, b)
           args == <<c, b, fields>>
       IN  IF ~Stored(store, key)
           THEN /\ ret' = Failed("read_block", args, "NoSuchKey", <<key>>)
                /\ cache' = cache
           ELSE \E r \in {fetch_responses(store, cache, c, b,
                                          ResponseIdsOf(store[key]))} :
                    /\ cache' = r.cache
                    /\ ret' = IF ~r.ok
                              THEN Failed("read_block", args, "NoSuchKey",
                                          <<key>> \o r.gets)
                              ELSE Projected("read_block", args,
                                             ("responses" :> Some(r.val)) @@ store[key],
                                             default_block_fields, fields,
                                             <<key>> \o r.gets)
    /\ made' = [made EXCEPT !.reads = @ + 1]
    /\ hist' = [hist EXCEPT !.trail = OffTrail]
    /\ UNCHANGED <<store, now>>
    /\ UNCHANGED threads

\* Faulty variant: an update that clears the cache.
update_block_invalidating(c, b, block) ==
    /\ made.calls < MaxCalls
    /\ store' = put_json_to_s3(store, BlockKey(c, b), block)
    /\ cache' = <<>>
    /\ ret' = Returned("update_block", <<c, b>>, block, <<>>)
    /\ made' = [made EXCEPT !.calls = @ + 1]
    /\ UNCHANGED <<now, hist>>
    /\ UNCHANGED threads

update_block(c, b, block) ==
    /\ made.calls < MaxCalls
    /\ store' = put_json_to_s3(store, BlockKey(c, b), block)
    /\ ret' = Returned("update_block", <<c, b>>, block, <<>>)
    /\ made' = [made EXCEPT !.calls = @ + 1]
    /\ hist' = [hist EXCEPT !.trail = OffTrail,
                            !.misfiled = IF block["id"] = b THEN @
                                         ELSE @ \cup {BlockKey(c, b)}]
    /\ UNCHANGED <<cache, now>>
    /\ UNCHANGED threads

delete_block(c, b) ==
    /\ made.calls < MaxCalls
    /\ store' = delete_json_from_s3(store, BlockKey(c, b))
    /\ ret' = Returned("delete_block", <<c, b>>, <<>>, <<>>)
    /\ made' = [made EXCEPT !.calls = @ + 1]
    /\ hist' = [hist EXCEPT !.trail = OffTrail]
    /\ UNCHANGED <<cache, now>>
    /\ UNCHANGED threads

\* The response a create_response call builds from its body.
NewResponse(response_id, partial_response) ==
    ResponseDict(Update([id |-> response_id, respondedAt |-> Some(now)],
                        partial_response))

\* Faulty variant: the block rewritten without the new id.
KeepResponseIds(block, response_id) == BlockDict(block)

\* block = Block(**fetch_block(...)); block.responseIds.append(response.id)
AppendResponseId(block, response_id) ==
    [BlockDict(block) EXCEPT !["responseIds"] = Append(@, response_id)]

create_response(c, b, partial_response) ==
    /\ made.calls < MaxCalls
    /\ LET response_id == ResponseUuids[Len(made.responses) + 1]
           response == NewResponse(response_id, partial_response)
           s1 == put_json_to_s3(store, ResponseKey(c, b, response_id), response)
           args == <<c, b, partial_response>>
       IN  \E r \in {fetch_block(s1, cache, c, b, NoFields)} :
               /\ cache' = r.cache
               /\ IF ~r.ok
                  THEN /\ store' = s1
                       /\ ret' = Failed("create_response", args, "NoSuchKey", r.gets)
                  ELSE /\ store' = put_json_to_s3(s1, BlockKey(c, b),
                                                  AppendResponseId(r.val, response_id))
                       /\ ret' = Returned("create_response", args, response, r.gets)
               /\ hist' = [hist EXCEPT
                             !.trail = IF /\ r.ok
                                          /\ @.stage = "created" /\ @.c = c /\ @.b = b
                                       THEN [@ EXCEPT !.stage = "responded",
                                                      !.s = partial_response["source"],
                                                      !.r = response_id]
                                       ELSE OffTrail]
    /\ made' = [made EXCEPT !.responses = Append(@, <<c, b>>), !.calls = @ + 1]
    /\ UNCHANGED now
    /\ UNCHANGED threads

read_response(c, b, r, fields) ==
    /\ made.reads < MaxReads
    /\ ret' = IF ~Stored(store, ResponseKey(c, b, r))
              THEN Failed("read_response", <<c, b, r, fields>>, "NoSuchKey",
                          <<ResponseKey(c, b, r)>>)
              ELSE Projected("read_response", <<c, b, r, fields>>,
                             store[ResponseKey(c, b, r)], default_response_fields,
                             fields, <<ResponseKey(c, b, r)>>)
    /\ made' = [made EXCEPT !.reads = @ + 1]
    /\ hist' = [hist EXCEPT !.trail = OffTrail]
    /\ UNCHANGED <<store, cache, now>>
    /\ UNCHANGED threads

update_response(c, b, r, response) ==
    /\ made.calls < MaxCalls
    /\ store' = put_json_to_s3(store, ResponseKey(c, b, r), response)
    /\ ret' = Returned("update_response", <<c, b, r>>, response, <<>>)
    /\ made' = [made EXCEPT !.calls = @ + 1]
    /\ hist' = [hist EXCEPT !.trail = OffTrail]
    /\ UNCHANGED <<cache, now>>
    /\ UNCHANGED threads

delete_response(c, b, r) ==
    /\ made.calls < MaxCalls
    /\ store' = delete_json_from_s3(store, ResponseKey(c, b, r))
    /\ ret' = Returned("delete_response", <<c, b, r>>, <<>>, <<>>)
    /\ made' = [made EXCEPT !.calls = @ + 1]
    /\ hist' = [hist EXCEPT !.trail = OffTrail]
    /\ UNCHANGED <<cache, now>>
    /\ UNCHANGED threads

\* Time passes between two requests.
Tick ==
    /\ made.calls < MaxCalls
    /\ now' = now + TickStep
    /\ made' = [made EXCEPT !.calls = @ + 1]
    /\ UNCHANGED <<store, cache, ret, hist>>
    /\ UNCHANGED threads

-----------------------------------------------------------------------------

Next ==
    \/ \E q \in Queries, p \in PartialConversations : create_conversation(q, p)
    \/ \E c \in ConversationArgs, f \in ConversationSelections : read_conversation(c, f)
    \/ \E c \in ConversationArgs : \E body \in ConversationBodies(c) :
            update_conversation(c, body)
    \/ \E c \in ConversationArgs : delete_conversation(c)
    \/ \E f \in ListSelections : list_conversations(f)
    \/ \E c \in ConversationArgs, p \in PartialBlocks : create_block(c, p)
    \/ \E a \in BlockArgs, f \in BlockSelections : read_block(a[1], a[2], f)
    \/ \E a \in BlockArgs : \E body \in BlockBodies(a[2]) :
            update_block(a[1], a[2], body)
    \/ \E a \in BlockArgs : delete_block(a[1], a[2])
    \/ \E a \in BlockArgs, p \in PartialResponses : create_response(a[1], a[2], p)
    \/ \E a \in ResponseArgs, f \in ResponseSelections :
            read_response(a[1], a[2], a[3], f)
    \/ \E a \in ResponseArgs : \E body \in ResponseBodies(a[3]) :
            update_response(a[1], a[2], a[3], body)
    \/ \E a \in ResponseArgs : delete_response(a[1], a[2], a[3])
    \/ Tick

Spec == Init /\ [][Next]_vars

-----------------------------------------------------------------------------
\* The creates when a storage write may fail.  Each handler issues two puts;
\* nth says which of them raises, and the handler stops there.

\* create_conversation: try/except turns the exception into a 500.
create_conversation_put_raises(query, partial_conversation, nth) ==
    /\ made.calls < MaxCalls
    /\ LET id == ConversationUuids[made.conversations + 1]
           block_id == BlockUuids[Len(made.blocks) + 1]
           conversation == NewConversation(id, block_id, query, partial_conversation)
           new_block == NewBlockOf(conversation, block_id, query)
       IN  /\ store' = IF nth = 1
                       THEN put_raises(store, ConversationKey(id), conversation)
                       ELSE put_raises(
                                put_json_to_s3(store, ConversationKey(id), conversation),
                                BlockKey(id, block_id), new_block)
           /\ ret' = Failed("create_conversation", <<query, partial_conversation>>,
                            "500", <<>>)
           /\ made' = [made EXCEPT !.conversations = @ + 1,
                                   !.blocks = Append(@, id),
                                   !.calls = @ + 1]
    /\ hist' = [hist EXCEPT !.trail = OffTrail]
    /\ UNCHANGED <<cache, now>>
    /\ UNCHANGED threads

\* create_block: the exception of the gateway goes to the caller.  The second
\* put is reached only when the conversation was read.
create_block_put_raises(c, partial_block, nth, status) ==
    /\ made.calls < MaxCalls
    /\ LET block_id == BlockUuids[Len(made.blocks) + 1]
           block == NewBlock(block_id, partial_block)
           key == ConversationKey(c)
       IN  IF nth = 1
           THEN /\ store' = put_raises(store, BlockKey(c, block_id), block)
                /\ ret' = Failed("create_block", <<c, partial_block>>, status, <<>>)
           ELSE /\ Stored(store, key)
                /\ \E s1 \in {put_json_to_s3(store, BlockKey(c, block_id), block)} :
                       store' = put_raises(s1, key, AppendBlockId(s1[key], block_id))
                /\ ret' = Failed("create_block", <<c, partial_block>>, status, <<key>>)
    /\ made' = [made EXCEPT !.blocks = Append(@, c), !.calls = @ + 1]
    /\ hist' = [hist EXCEPT !.trail = OffTrail]
    /\ UNCHANGED <<cache, now>>
    /\ UNCHANGED threads

\* create_response: likewise; the second put is reached only when fetch_block
\* returned the block.
create_response_put_raises(c, b, partial_response, nth, status) ==
    /\ made.calls < MaxCalls
    /\ LET response_id == ResponseUuids[Len(made.responses) + 1]
           response == NewResponse(response_id, partial_response)
           args == <<c, b, partial_response>>
       IN  IF nth = 1
           THEN /\ store' = put_raises(store, ResponseKey(c, b, response_id), response)
                /\ cache' = cache
                /\ ret' = Failed("create_response", args, status, <<>>)
           ELSE \E s1 \in {put_json_to_s3(store, ResponseKey(c, b, response_id),
                                          response)} :
                \E r \in {fetch_block(s1, cache, c, b, NoFields)} :
                    /\ r.ok
                    /\ cache' = r.cache
                    /\ store' = put_raises(s1, BlockKey(c, b),
                                           AppendResponseId(r.val, response_id))
                    /\ ret' = Failed("create_response", args, status, r.gets)
    /\ made' = [made EXCEPT !.responses = Append(@, <<c, b>>), !.calls = @ + 1]
    /\ hist' = [hist EXCEPT !.trail = OffTrail]
    /\ UNCHANGED now
    /\ UNCHANGED threads

NextCreates ==
    \/ \E q \in Queries, p \in PartialConversations : create_conversation(q, p)
    \/ \E c \in ConversationArgs, p \in PartialBlocks : create_block(c, p)
    \/ \E a \in BlockArgs, p \in PartialResponses : create_response(a[1], a[2], p)
    \/ \E q \in Queries, p \in PartialConversations, nth \in 1..2 :
            create_conversation_put_raises(q, p, nth)
    \/ \E c \in ConversationArgs, p \in PartialBlocks, nth \in 1..2, e \in PutErrors :
            create_block_put_raises(c, p, nth, e)
    \/ \E a \in BlockArgs, p \in PartialResponses, nth \in 1..2, e \in PutErrors :
            create_response_put_raises(a[1], a[2], p, nth, e)

SpecCreates == Init /\ [][NextCreates]_vars

-----------------------------------------------------------------------------
\* create_block and create_response on two threads, one step per storage
\* call: the code up to and including a put or get is one step.

\* create_block up to the put of the block: the id, the time, the model.
create_block_start(t, c, partial_block) ==
    /\ threads[t].pc = "idle"
    /\ made.calls < MaxCalls
    /\ LET block_id == BlockUuids[Len(made.blocks) + 1]
       IN  threads' = Enter(t, [Idle EXCEPT
                                  !.pc = "put_child", !.op = "create_block",
                                  !.args = <<c, partial_block>>, !.c = c,
                                  !.id = block_id,
                                  !.child = NewBlock(block_id, partial_block)])
    /\ made' = [made EXCEPT !.blocks = Append(@, c), !.calls = @ + 1]
    /\ hist' = [hist EXCEPT !.trail = OffTrail]
    /\ UNCHANGED <<store, cache, now, ret>>

\* s3_utils.put_json_to_s3(key, block.dict())
create_block_put_block(t) ==
    /\ threads[t].pc = "put_child"
    /\ threads[t].op = "create_block"
    /\ store' = put_json_to_s3(store, BlockKey(threads[t].c, threads[t].id),
                               threads[t].child)
    /\ threads' = [threads EXCEPT ![t].pc = "get_parent"]
    /\ UNCHANGED <<cache, now, made, ret, hist>>

\* conversation = s3_utils.get_json_from_s3(key)
create_block_get_conversation(t) ==
    /\ threads[t].pc = "get_parent"
    /\ threads[t].op = "create_block"
    /\ LET key == ConversationKey(threads[t].c)
       IN  IF ~Stored(store, key)
           THEN /\ threads' = [threads EXCEPT ![t].pc = "raised"]
                /\ ret' = Failed("create_block", threads[t].args, "NoSuchKey", <<key>>)
           ELSE /\ threads' = [threads EXCEPT ![t].pc = "put_parent",
                                              ![t].parent = store[key],
                                              ![t].miss = TRUE]
                /\ ret' = ret
    /\ UNCHANGED <<store, cache, now, made, hist>>

\* The append, s3_utils.put_json_to_s3(key, conversation) and the return.
create_block_put_conversation(t) ==
    /\ threads[t].pc = "put_parent"
    /\ threads[t].op = "create_block"
    /\ LET key == ConversationKey(threads[t].c)
       IN  /\ store' = put_json_to_s3(store, key,
                                      AppendBlockId(threads[t].parent, threads[t].id))
           /\ ret' = Returned("create_block", threads[t].args, threads[t].child,
                              <<key>>)
    /\ threads' = [threads EXCEPT ![t].pc = "returned"]
    /\ UNCHANGED <<cache, now, made, hist>>

\* create_response up to the put of the response.
create_response_start(t, c, b, partial_response) ==
    /\ threads[t].pc = "idle"
    /\ made.calls < MaxCalls
    /\ LET response_id == ResponseUuids[Len(made.responses) + 1]
       IN  threads' = Enter(t, [Idle EXCEPT
                                  !.pc = "put_child", !.op = "create_response",
                                  !.args = <<c, b, partial_response>>, !.c = c,
                                  !.b = b, !.id = response_id,
                                  !.child = NewResponse(response_id, partial_response)])
    /\ made' = [made EXCEPT !.responses = Append(@, <<c, b>>), !.calls = @ + 1]
    /\ hist' = [hist EXCEPT !.trail = OffTrail]
    /\ UNCHANGED <<store, cache, now, ret>>

\* s3_utils.put_json_to_s3(key, response.dict())
create_response_put_response(t) ==
    /\ threads[t].pc = "put_child"
    /\ threads[t].op = "create_response"
    /\ store' = put_json_to_s3(store,
                               ResponseKey(threads[t].c, threads[t].b, threads[t].id),
                               threads[t].child)
    /\ threads' = [threads EXCEPT ![t].pc = "get_parent"]
    /\ UNCHANGED <<cache, now, made, ret, hist>>

\* fetch_block(conversation_id, block_id, '') up to the return of its get: a
\* live entry is returned without a get.
create_response_fetch_block(t) ==
    /\ threads[t].pc = "get_parent"
    /\ threads[t].op = "create_response"
    /\ LET key == BlockKey(threads[t].c, threads[t].b)
           k == FetchBlockKey(threads[t].c, threads[t].b, NoFields)
       IN  IF Live(cache, k)
           THEN /\ threads' = [threads EXCEPT ![t].pc = "put_parent",
                                              ![t].parent = cache[k].value]
                /\ ret' = ret
           ELSE IF ~Stored(store, key)
           THEN /\ threads' = [threads EXCEPT ![t].pc = "raised"]
                /\ ret' = Failed("create_response", threads[t].args, "NoSuchKey",
                                 <<key>>)
           ELSE /\ threads' = [threads EXCEPT ![t].pc = "put_parent",
                                              ![t].parent = store[key],
                                              ![t].miss = TRUE]
                /\ ret' = ret
    /\ UNCHANGED <<store, cache, now, made, hist>>

\* The entry set by @cached when the get was made, the append,
\* s3_utils.put_json_to_s3(key, block.dict()) and the return.
create_response_put_block(t) ==
    /\ threads[t].pc = "put_parent"
    /\ threads[t].op = "create_response"
    /\ LET key == BlockKey(threads[t].c, threads[t].b)
           k == FetchBlockKey(threads[t].c, threads[t].b, NoFields)
       IN  /\ cache' = IF threads[t].miss THEN CacheSet(cache, k, threads[t].parent)
                       ELSE cache
           /\ store' = put_json_to_s3(store, key,
                                      AppendResponseId(threads[t].parent, threads[t].id))
           /\ ret' = Returned("create_response", threads[t].args, threads[t].child,
                              IF threads[t].miss THEN <<key>> ELSE <<>>)
    /\ threads' = [threads EXCEPT ![t].pc = "returned"]
    /\ UNCHANGED <<now, made, hist>>

NextConcurrent ==
    \/ \E q \in Queries, p \in PartialConversations : create_conversation(q, p)
    \/ \E t \in Threads, c \in ConversationArgs, p \in PartialBlocks :
            create_block_start(t, c, p)
    \/ \E t \in Threads : create_block_put_block(t)
    \/ \E t \in Threads : create_block_get_conversation(t)
    \/ \E t \in Threads : create_block_put_conversation(t)
    \/ \E t \in Threads, a \in BlockArgs, p \in PartialResponses :
            create_response_start(t, a[1], a[2], p)
    \/ \E t \in Threads : create_response_put_response(t)
    \/ \E t \in Threads : create_response_fetch_block(t)
    \/ \E t \in Threads : create_response_put_block(t)

SpecConcurrent == Init /\ [][NextConcurrent]_vars

-----------------------------------------------------------------------------
\* The projector on its own: one document of one entity type in the bucket,
\* projected under each selection.

FullResponse ==
    ResponseDict([id |-> "r1", source |-> "agent", responseType |-> "text",
                  payload |-> Some([text |-> "hi"]), requestedAt |-> Some(1),
                  respondedAt |-> Some(2)])
FullBlock ==
    BlockDict([id |-> "b1", inputText |-> "hello", responseIds |-> <<"r1">>,
               createdBy |-> Caller, createdAt |-> 1,
               responses |-> Some(<<FullResponse>>)])
FullConversation ==
    ConversationDict([id |-> "c1", createdBy |-> Caller, createdAt |-> 1,
                      updatedAt |-> 2, status |-> "OPEN",
                      summaryText |-> Some("hello"), summaryType |-> Some("UNKNOWN"),
                      blockIds |-> <<"b1">>, blocks |-> Some(<<FullBlock>>)])

\* The entity type a key names, by its depth.
FullDocument(key) ==
    IF Len(key) = 1 THEN FullConversation
    ELSE IF Len(key) = 2 THEN FullBlock ELSE FullResponse

\* The document of each entity as the handlers write it when the caller sets
\* no Optional field: .dict() writes those as null.
BareDocument(key) ==
    IF Len(key) = 1
    THEN ConversationDict([id |-> "c1", createdBy |-> User("u2"), createdAt |-> 1,
                           updatedAt |-> 2, status |-> "OPEN", blockIds |-> <<>>])
    ELSE IF Len(key) = 2
    THEN BlockDict([id |-> "b1", inputText |-> "hello", responseIds |-> <<>>,
                    createdBy |-> User("u2"), createdAt |-> 1])
    ELSE ResponseDict([id |-> "r1", source |-> "agent", responseType |-> "text"])

\* A field of another entity's default set, on a document not written by the
\* handlers.
StrayField(key) ==
    IF Len(key) = 1 THEN [inputText |-> "stray"] ELSE [source |-> "stray"]

\* The default field set the handlers pass for the entity at a key.
DefaultFields(key) ==
    IF Len(key) = 1 THEN default_conversation_fields
    ELSE IF Len(key) = 2 THEN default_block_fields ELSE default_response_fields

ProjectionKeys ==
    {ConversationKey("c1"), BlockKey("c1", "b1"), ResponseKey("c1", "b1", "r1")}

\* Every document that holds some of its entity's fields, with or without a
\* stray field, and the documents with the Optional fields null.
Documents(key) ==
    {Restrict(StrayField(key) @@ FullDocument(key), K) :
        K \in SUBSET DOMAIN (StrayField(key) @@ FullDocument(key))}
    \cup {BareDocument(key)}

FBlocksInputText == << <<"blocks", "inputText">> >>
FBlocksResponsesPayload == << <<"blocks", "responses", "payload">> >>
FResponsesPayload == << <<"responses", "payload">> >>
FPayload == << <<"payload">> >>
FSummaryTextId == << <<"summaryText", "id">> >>
FBlockIdsId == << <<"blockIds", "id">> >>
FCreatedById == << <<"createdBy", "id">> >>
FBlocksTwice == << <<"blocks">>, <<"blocks", "inputText">> >>

ProjectionSelections ==
    {NoFields, FStatus, FBlocks, FBlocksResponses, FResponses, FBlocksInputText,
     FBlocksResponsesPayload, FResponsesPayload, FPayload, FSummaryTextId,
     FBlockIdsId, FCreatedById, FBlocksTwice}

InitProjection ==
    /\ store \in UNION {{(key :> doc) : doc \in Documents(key)} :
                            key \in ProjectionKeys}
    /\ cache = <<>>
    /\ now = 0
    /\ made = [conversations |-> 0, blocks |-> <<>>, responses |-> <<>>,
               calls |-> 0, reads |-> 0]
    /\ ret = Returned("start", <<>>, <<>>, <<>>)
    /\ hist = [filled |-> <<>>, trail |-> NoTrail, misfiled |-> {}, hits |-> {},
               refilled |-> {}]
    /\ threads = NoThreads

\* filter_nested_fields(document, defaults of its entity, fields.split(',')).
Project(key, fields) ==
    /\ key \in DOMAIN store
    /\ ret' = IF FilterRaises(store[key], DefaultFields(key), SplitFields(fields))
              THEN Failed("filter_nested_fields", <<key, fields>>, "TypeError", <<>>)
              ELSE Returned("filter_nested_fields", <<key, fields>>,
                            filter_nested_fields(store[key], DefaultFields(key),
                                                 SplitFields(fields)),
                            <<>>)
    /\ UNCHANGED <<store, cache, now, made, hist>>
    /\ UNCHANGED threads

\* filter_nested_fields applied, with the same defaults and selection, to what
\* it returned; the first result is kept as the third argument.
Reproject(key, fields) ==
    /\ ret.op = "filter_nested_fields"
    /\ ret.status = "200"
    /\ ret.args = <<key, fields>>
    /\ ret' = IF FilterRaises(ret.out, DefaultFields(key), SplitFields(fields))
              THEN Failed("reproject", <<key, fields, ret.out>>, "TypeError", <<>>)
              ELSE Returned("reproject", <<key, fields, ret.out>>,
                            filter_nested_fields(ret.out, DefaultFields(key),
                                                 SplitFields(fields)),
                            <<>>)
    /\ UNCHANGED <<store, cache, now, made, hist>>
    /\ UNCHANGED threads

NextProjection ==
    \/ \E key \in ProjectionKeys, fields \in ProjectionSelections : Project(key, fields)
    \/ \E key \in ProjectionKeys, fields \in ProjectionSelections : Reproject(key, fields)

SpecProjection == InitProjection /\ [][NextProjection]_vars

-----------------------------------------------------------------------------
\* Properties.

\* A step of the handler op (a clock tick keeps ret as it was).
Called(op) == made' # made /\ now' = now /\ ret'.op = op

\* The positions of the blockIds of conversation c that name no stored block.
Dangling(s, c) ==
    {i \in 1..Len(BlockIdsOf(s[ConversationKey(c)])) :
        ~Stored(s, BlockKey(c, BlockIdsOf(s[ConversationKey(c)])[i]))}

\* C1, as claimed: every successful create_block / create_response leaves the
\* parent document, stored before the call, with its id-sequence as it was before
\* the call followed by the new id.
AppendOnCreate ==
    [][ /\ Called("create_block") /\ ret'.status = "200"
            => LET key == ConversationKey(ret'.args[1])
               IN  key \in DOMAIN store
                     => /\ key \in DOMAIN store'
                        /\ store'[key]["blockIds"] =
                              Append(store[key]["blockIds"], ret'.out["id"])
        /\ Called("create_response") /\ ret'.status = "200"
            => LET key == BlockKey(ret'.args[1], ret'.args[2])
               IN  key \in DOMAIN store
                     => /\ key \in DOMAIN store'
                        /\ store'[key]["responseIds"] =
                              Append(store[key]["responseIds"], ret'.out["id"])
      ]_vars

\* C2, as claimed: whenever a read_conversation that requests blocks was issued
\* while some id of the stored blockIds names no stored block, it failed.
NotFoundPropagatesAlways ==
    (/\ ret.op = "read_conversation"
     /\ WantsBlocks(ret.args[2])
     /\ Stored(store, ConversationKey(ret.args[1]))
     /\ Dangling(store, ret.args[1]) # {})
    => ret.status # "200"

\* C2, amended: a read_conversation that requests blocks, issued while some id
\* of the stored blockIds names no stored block, fails with status 500 and
\* returns nothing, provided the cache holds no unexpired entry for the block
\* list (conversation, blockIds, fields) nor for that block (conversation, id,
\* fields).
NotFoundPropagatesOnMiss ==
    [][ Called("read_conversation")
          => LET c == ret'.args[1]
                 f == ret'.args[2]
                 ids == BlockIdsOf(store[ConversationKey(c)])
             IN  (/\ WantsBlocks(f)
                  /\ Stored(store, ConversationKey(c))
                  /\ ~Live(cache, FetchBlocksKey(c, ids, f))
                  /\ \E i \in Dangling(store, c) :
                        ~Live(cache, FetchBlockKey(c, ids[i], f)))
                 => ret'.status = "500" /\ DOMAIN ret'.out = {}
      ]_vars

\* C2, the case: a read failed on a dangling id while the cache held entries of
\* earlier reads.
NotFoundPropagated ==
    /\ ret.op = "read_conversation"
    /\ ret.status = "500"
    /\ WantsBlocks(ret.args[2])
    /\ Stored(store, ConversationKey(ret.args[1]))
    /\ Dangling(store, ret.args[1]) # {}
    /\ cache # <<>>

Writes ==
    {"update_conversation", "update_block", "update_response",
     "delete_conversation", "delete_block", "delete_response"}

\* C4: every update and delete leaves the cache as it was; no step removes or
\* replaces an unexpired entry; and a read_conversation that finds an unexpired
\* entry for its block list issues no get below the root and returns the
\* projection of the blocks that entry holds.
NoInvalidationOnWrite ==
    [][ /\ (made' # made /\ now' = now /\ ret'.op \in Writes) => cache' = cache
        /\ \A k \in DOMAIN cache :
              Live(cache, k) => k \in DOMAIN cache' /\ cache'[k] = cache[k]
        /\ Called("read_conversation")
             => LET c == ret'.args[1]
                    f == ret'.args[2]
                    key == ConversationKey(c)
                    k == FetchBlocksKey(c, BlockIdsOf(store[key]), f)
                IN  (WantsBlocks(f) /\ Stored(store, key) /\ Live(cache, k))
                    => /\ ret'.gets = <<key>>
                       /\ ret'.status = "200"
                            => ret'.out =
                                 filter_nested_fields(
                                     ("blocks" :> Some(cache[k].value)) @@ store[key],
                                     default_conversation_fields, SplitFields(f))
      ]_vars

\* C4, the case: a read returned, from the cache, a block that is no longer
\* stored.
StaleReadServed ==
    /\ ret.op = "read_conversation"
    /\ ret.status = "200"
    /\ WantsBlocks(ret.args[2])
    /\ ret.gets = <<ConversationKey(ret.args[1])>>
    /\ Dangling(store, ret.args[1]) # {}
    /\ Len(ret.out["blocks"][1]) = Len(BlockIdsOf(store[ConversationKey(ret.args[1])]))

\* blockIds as the body of a create_conversation call supplies them.
SuppliedBlockIds(partial_conversation) ==
    IF "blockIds" \in DOMAIN partial_conversation
    THEN partial_conversation["blockIds"] ELSE <<>>

\* A create_conversation step wrote the conversation it returns and a block b
\* with inputText q under it, at two keys that held nothing, and nothing else.
WrotePair(b, q) ==
    LET c == ret'.out["id"]
    IN  /\ DOMAIN store' = DOMAIN store \cup {ConversationKey(c), BlockKey(c, b)}
        /\ ConversationKey(c) \notin DOMAIN store
        /\ BlockKey(c, b) \notin DOMAIN store
        /\ \A k \in DOMAIN store : store'[k] = store[k]
        /\ store'[ConversationKey(c)] = ret'.out
        /\ store'[BlockKey(c, b)]["id"] = b
        /\ store'[BlockKey(c, b)]["inputText"] = q

\* C5, as claimed: a create_conversation stores and returns a conversation whose
\* blockIds holds exactly one id, that of the paired block, stored with
\* inputText q; these two documents and no other are written.
CreateConversationOneBlockId ==
    [][ Called("create_conversation")
          => /\ ret'.status = "200"
             /\ Len(ret'.out["blockIds"]) = 1
             /\ WrotePair(ret'.out["blockIds"][1], ret'.args[1])
      ]_vars

\* C5, amended: a create_conversation stores and returns a conversation whose
\* blockIds is the blockIds of the body (none if the body has none) followed by
\* one new id, that of the paired block, stored with inputText q; these two
\* documents and no other are written.
CreateConversationPairs ==
    [][ Called("create_conversation")
          => LET ids == ret'.out["blockIds"]
                 supplied == SuppliedBlockIds(ret'.args[2])
             IN  /\ ret'.status = "200"
                 /\ Len(ids) = Len(supplied) + 1
                 /\ SubSeq(ids, 1, Len(supplied)) = supplied
                 /\ ids[Len(ids)] \notin Range(supplied)
                 /\ WrotePair(ids[Len(ids)], ret'.args[1])
      ]_vars

\* C5, the case: a conversation created from a body that supplied blockIds.
CreatedWithSuppliedBlockIds ==
    /\ ret.op = "create_conversation"
    /\ ret.status = "200"
    /\ SuppliedBlockIds(ret.args[2]) # <<>>
    /\ Len(ret.out["blockIds"]) = Len(SuppliedBlockIds(ret.args[2])) + 1
    /\ Stored(store, BlockKey(ret.out["id"], ret.out["blockIds"][2]))

\* The initial block's stored responseIds after the one create_response.
OneResponseId ==
    hist.trail.stage \in {"responded", "read"}
    => /\ Stored(store, BlockKey(hist.trail.c, hist.trail.b))
       /\ store[BlockKey(hist.trail.c, hist.trail.b)]["responseIds"] = <<hist.trail.r>>

\* The tree the read that follows returned: one block, the initial one, with
\* one response, of source s.
OneBlockOneResponse ==
    /\ ret.op = "read_conversation"
    /\ ret.status = "200"
    /\ "blocks" \in DOMAIN ret.out
    /\ Len(ret.out["blocks"][1]) = 1
    /\ ret.out["blocks"][1][1]["id"] = hist.trail.b
    /\ "responses" \in DOMAIN ret.out["blocks"][1][1]
    /\ Len(ret.out["blocks"][1][1]["responses"][1]) = 1
    /\ ret.out["blocks"][1][1]["responses"][1][1]["source"] = hist.trail.s

\* C6, as claimed: after create_conversation, then one successful
\* create_response of source s under the initial block, the block's stored
\* responseIds has length 1, and the read_conversation with blocks.responses
\* that follows returns one block with one response of source s.
EndToEndVisibleAnyBody ==
    /\ OneResponseId
    /\ hist.trail.stage = "read" => OneBlockOneResponse

\* C6, amended: after create_conversation, directly followed by one successful
\* create_response of source s under the initial block, the block's stored
\* responseIds has length 1; and if the body of the create supplied no blockIds,
\* the read_conversation with blocks.responses that directly follows returns
\* one block with one response of source s.
EndToEndVisible ==
    /\ OneResponseId
    /\ (hist.trail.stage = "read" /\ hist.trail.plain) => OneBlockOneResponse

\* C6, the case: the three calls were made, the create with a body without
\* blockIds, and the read returned the tree.
EndToEndRead ==
    /\ hist.trail.stage = "read"
    /\ hist.trail.plain
    /\ hist.trail.s = "agent"
    /\ ret.status = "200"

\* The ids of the blocks the last read_conversation returned.
\* Some path of the selection is blocks or begins with "blocks.".
AsksForBlocks(fields) == \E p \in SplitFields(fields) : p[1] = "blocks"

ReturnedBlockIds ==
    [i \in 1..Len(ret.out["blocks"][1]) |-> ret.out["blocks"][1][i]["id"]]

\* C7, as claimed: every successful read_conversation that requests blocks
\* returns blocks whose ids are the stored blockIds, in that order.
OrderPreservedAlways ==
    (ret.op = "read_conversation" /\ ret.status = "200" /\ AsksForBlocks(ret.args[2]))
    => ReturnedBlockIds = BlockIdsOf(store[ConversationKey(ret.args[1])])

\* C7, amended: every successful read_conversation that requests blocks returns
\* blocks whose ids are the stored blockIds, in that order, provided no
\* update_block has stored under the key of one of them a document of another
\* id.
OrderPreserved ==
    (/\ ret.op = "read_conversation" /\ ret.status = "200" /\ AsksForBlocks(ret.args[2])
     /\ \A b \in Range(BlockIdsOf(store[ConversationKey(ret.args[1])])) :
            BlockKey(ret.args[1], b) \notin hist.misfiled)
    => ReturnedBlockIds = BlockIdsOf(store[ConversationKey(ret.args[1])])

\* C7, the case: two or more blocks returned while the cache holds the block
\* list an earlier read of the conversation obtained for other blockIds.
OrderedAfterEarlierRead ==
    /\ ret.op = "read_conversation"
    /\ ret.status = "200"
    /\ AsksForBlocks(ret.args[2])
    /\ Len(ReturnedBlockIds) >= 2
    /\ ReturnedBlockIds = BlockIdsOf(store[ConversationKey(ret.args[1])])
    /\ \E k \in DOMAIN cache :
          /\ k[1] = "str,tuple,str"
          /\ k[2] = ret.args[1]
          /\ k[3] # ReturnedBlockIds

\* C8, as claimed: no stored conversation holds blocks and no stored block holds
\* responses (a field holding null counts as not held).
TransientNeverPersisted ==
    \A key \in DOMAIN store :
        /\ Len(key) = 1 =>
              ("blocks" \notin DOMAIN store[key] \/ store[key]["blocks"] = None)
        /\ Len(key) = 2 =>
              ("responses" \notin DOMAIN store[key] \/ store[key]["responses"] = None)

\* The key a delete call derives from its arguments.
DeletedKey ==
    IF ret'.op = "delete_conversation" THEN ConversationKey(ret'.args[1])
    ELSE IF ret'.op = "delete_block" THEN BlockKey(ret'.args[1], ret'.args[2])
    ELSE ResponseKey(ret'.args[1], ret'.args[2], ret'.args[3])

\* C9: a delete_conversation, delete_block or delete_response removes the
\* document at the key of its arguments and leaves every other document stored
\* and unchanged.
DeleteNeverCascades ==
    [][ (Called("delete_conversation") \/ Called("delete_block")
            \/ Called("delete_response"))
          => /\ DOMAIN store' = DOMAIN store \ {DeletedKey}
             /\ \A k \in DOMAIN store' : store'[k] = store[k]
      ]_vars

\* C9, the case: a block was deleted; its conversation still lists it and a
\* response below it is still stored.
DeletedBlockLeftBehind ==
    /\ ret.op = "delete_block"
    /\ ~Stored(store, BlockKey(ret.args[1], ret.args[2]))
    /\ Stored(store, ConversationKey(ret.args[1]))
    /\ ret.args[2] \in Range(BlockIdsOf(store[ConversationKey(ret.args[1])]))
    /\ \E k \in DOMAIN store :
          Len(k) = 3 /\ k[1] = ret.args[1] /\ k[2] = ret.args[2]

\* C10: projecting a document of any entity under the empty selection returns
\* the fields that are both defaults of the entity and present on the document,
\* each with the document's value.
DefaultInclusion ==
    (ret.op = "filter_nested_fields" /\ ret.args[2] = NoFields)
    => LET data == store[ret.args[1]]
       IN  /\ ret.status = "200"
           /\ DOMAIN ret.out = DefaultFields(ret.args[1]) \cap DOMAIN data
           /\ \A f \in DOMAIN ret.out : ret.out[f] = data[f]

\* C10, the case: a document that lacks a default field and holds a field that
\* is no default, projected under the empty selection.
DefaultsProjected ==
    /\ ret.op = "filter_nested_fields"
    /\ ret.args[2] = NoFields
    /\ ret.status = "200"
    /\ DOMAIN ret.out # {}
    /\ DefaultFields(ret.args[1]) \ DOMAIN store[ret.args[1]] # {}
    /\ DOMAIN store[ret.args[1]] \ DefaultFields(ret.args[1]) # {}

\* C11: projecting the result of a projection again, with the same defaults and
\* the same selection, succeeds and returns that result.
ProjectionIdempotent ==
    ret.op = "reproject" => ret.status = "200" /\ ret.out = ret.args[3]

\* C11, the case: a projection under a dotted selection that pruned the nested
\* elements of the document, projected again.
Reprojected ==
    /\ ret.op = "reproject"
    /\ ret.status = "200"
    /\ ret.args[2] = FBlocksResponsesPayload
    /\ "blocks" \in DOMAIN ret.out
    /\ ret.out # store[ret.args[1]]

\* The conversation-root keys of the bucket, in key order.
RootKeys == [i \in 1..Len(ListedConversations) |-> ConversationKey(ListedConversations[i])]

FixedExpiry ==
    [][ /\ \A k \in DOMAIN cache :
              now < cache[k].expires => k \in DOMAIN cache' /\ cache'[k] = cache[k]
        /\ \A k \in DOMAIN cache' :
              (k \notin DOMAIN cache \/ cache'[k] # cache[k])
                 => /\ cache'[k].expires = now + ttl
                    /\ (k \in DOMAIN cache => now >= cache[k].expires)
        /\ Called("read_conversation")
              => LET c == ret'.args[1]
                     f == ret'.args[2]
                     key == ConversationKey(c)
                     ids == BlockIdsOf(store[key])
                     k == <<c, ids, f>>
                 IN  (/\ WantsBlocks(f)
                      /\ Stored(store, key)
                      /\ k \in DOMAIN hist.filled
                      /\ now >= hist.filled[k] + ttl)
                     => /\ ~Live(cache, FetchBlocksKey(c, ids, f))
                        /\ \A i \in 1..Len(ids) :
                              \/ Live(cache, FetchBlockKey(c, ids[i], f))
                              \/ BlockKey(c, ids[i]) \in Range(ret'.gets)
                              \/ ret'.status # "200"
                        /\ ret'.status = "200"
                              => LET e == cache'[FetchBlocksKey(c, ids, f)]
                                 IN  /\ e.expires = now + ttl
                                     /\ Len(e.value) = Len(ids)
                                     /\ \A i \in 1..Len(ids) :
                                           BlockKey(c, ids[i]) \in Range(ret'.gets)
                                             => \A n \in DOMAIN store[BlockKey(c, ids[i])] \ {"responses"} :
                                                    e.value[i][n] = store[BlockKey(c, ids[i])][n]
      ]_vars

\* C13, the case: an entry filled, hit at a later time before its expiry, and,
\* ttl after the filling, obtained anew with block gets by the read just made.
RefilledAfterHits ==
    /\ ret.op = "read_conversation"
    /\ ret.status = "200"
    /\ Len(ret.gets) > 1
    /\ LET k == <<ret.args[1], BlockIdsOf(store[ConversationKey(ret.args[1])]),
                  ret.args[2]>>
       IN  /\ k \in hist.refilled
           /\ hist.filled[k] = now
           /\ Live(cache, FetchBlocksKey(k[1], k[2], k[3]))

\* The numeric status of the not-found category.
NotFound == "404"

\* C14, as claimed: a read_conversation, read_block or read_response whose last
\* get named a document absent from storage (the root, or a child the root or
\* the block refers to) ends with the numeric not-found status.
ErrorCategoriesPreserved ==
    (/\ ret.op \in {"read_conversation", "read_block", "read_response"}
     /\ ret.gets # <<>>
     /\ ~Stored(store, ret.gets[Len(ret.gets)]))
        => ret.status = NotFound

\* The names the paths of a selection give below the collection coll.
DeeperNames(fields, coll) ==
    {p[2] : p \in {q \in SplitFields(fields) : Len(q) > 1 /\ q[1] = coll}}

\* C15, as claimed: every collection (blocks, responses) in the output of
\* filter_nested_fields holds as many elements as in the document, in that
\* order, each with exactly the keys of the element that are defaults of the
\* nested entity or named by a deeper path of the selection.
NestedPruning ==
    (ret.op = "filter_nested_fields" /\ ret.status = "200")
        => \A coll \in {"blocks", "responses"} \cap DOMAIN ret.out :
              LET given == store[ret.args[1]][coll]
                  kept == ret.out[coll]
              IN  IsListOfDict(coll, given)
                    => /\ IsListOfDict(coll, kept)
                       /\ Len(kept[1]) = Len(given[1])
                       /\ \A i \in 1..Len(given[1]) :
                             /\ DOMAIN kept[1][i]
                                   = DOMAIN given[1][i]
                                       \cap (NestedDefaults(coll)
                                               \cup DeeperNames(ret.args[2], coll))
                             /\ kept[1][i]["id"] = given[1][i]["id"]

\* C16, as claimed: the keys of the output of filter_nested_fields are the
\* keys of the document that are default fields or the first segment of a
\* requested path.
TopLevelKeySet ==
    (ret.op = "filter_nested_fields" /\ ret.status = "200")
        => DOMAIN ret.out
             = DOMAIN store[ret.args[1]]
                 \cap (DefaultFields(ret.args[1])
                         \cup {p[1] : p \in SplitFields(ret.args[2])})

\* The response keys among the gets of a call.
ResponseGets(gets) == {i \in 1..Len(gets) : Len(gets[i]) = 3}

HydrationDecision ==
    ret.op = "read_conversation"
        => IF AsksForBlocks(ret.args[2])
           THEN ret.status = "200" => "blocks" \in DOMAIN ret.out
           ELSE /\ ret.gets = <<ConversationKey(ret.args[1])>>
                /\ Stored(store, ConversationKey(ret.args[1])) => ret.status = "200"

\* The ids the call that has just ended drew for its child.
NewBlockKey == BlockKey(ret'.args[1], BlockUuids[Len(made.blocks) + 1])
NewResponseKey ==
    ResponseKey(ret'.args[1], ret'.args[2], ResponseUuids[Len(made.responses) + 1])

\* C19: a create_block or create_response that fails after its child write
\* changes storage by the child document and nothing else: the child is stored,
\* the parent, if stored, is as before and without the new id.  The call fails
\* whenever the parent cannot be read.
NoCompensation ==
    [][ /\ (Called("create_block") /\ ret'.status # "200" /\ Stored(store', NewBlockKey))
            => LET key == ConversationKey(ret'.args[1])
               IN  /\ store' = put_json_to_s3(store, NewBlockKey, store'[NewBlockKey])
                   /\ Stored(store, key)
                         => /\ store'[key] = store[key]
                            /\ NewBlockKey[2] \notin Range(BlockIdsOf(store'[key]))
        /\ (Called("create_response") /\ ret'.status # "200"
                                      /\ Stored(store', NewResponseKey))
            => LET key == BlockKey(ret'.args[1], ret'.args[2])
               IN  /\ store' = put_json_to_s3(store, NewResponseKey,
                                              store'[NewResponseKey])
                   /\ Stored(store, key)
                         => /\ store'[key] = store[key]
                            /\ NewResponseKey[3] \notin Range(ResponseIdsOf(store'[key]))
        /\ (Called("create_block") /\ ~Stored(store, ConversationKey(ret'.args[1])))
            => ret'.status # "200"
        /\ (/\ Called("create_response")
            /\ ~Stored(store, BlockKey(ret'.args[1], ret'.args[2]))
            /\ ~Live(cache, FetchBlockKey(ret'.args[1], ret'.args[2], NoFields)))
            => ret'.status # "200"
      ]_vars

\* C19, the case: a create_block whose rewrite of the conversation failed: the
\* block is stored, the conversation is stored and does not list it.
OrphanAfterFailedRewrite ==
    /\ ret.op = "create_block"
    /\ ret.status \in PutErrors
    /\ ret.gets # <<>>
    /\ Len(made.blocks) > 0
    /\ LET block_id == BlockUuids[Len(made.blocks)]
       IN  /\ Stored(store, BlockKey(ret.args[1], block_id))
           /\ Stored(store, ConversationKey(ret.args[1]))
           /\ block_id \notin Range(BlockIdsOf(store[ConversationKey(ret.args[1])]))

\* C20, as claimed: every id in the blockIds of a stored conversation names a
\* stored block, every id in the responseIds of a stored block a stored
\* response.  Only the ids the service drew are looked at, not those a caller
\* put in the body of create_conversation.
ReferentialIntegrity ==
    \A key \in DOMAIN store :
        /\ Len(key) = 1
              => \A id \in Range(BlockIdsOf(store[key])) \cap Range(BlockUuids) :
                    Stored(store, BlockKey(key[1], id))
        /\ Len(key) = 2
              => \A id \in Range(ResponseIdsOf(store[key])) \cap Range(ResponseUuids) :
                    Stored(store, ResponseKey(key[1], key[2], id))

\* The key of the parent a thread's call appends to, and its stored ids.
ParentKey(thread) ==
    IF thread.op = "create_block" THEN ConversationKey(thread.c)
    ELSE BlockKey(thread.c, thread.b)

ParentIds(thread) ==
    IF ~Stored(store, ParentKey(thread)) THEN {}
    ELSE IF thread.op = "create_block" THEN Range(BlockIdsOf(store[ParentKey(thread)]))
    ELSE Range(ResponseIdsOf(store[ParentKey(thread)]))

\* C21, as claimed: when two create_block calls on one conversation, or two
\* create_response calls on one block, overlapped and both have returned, the
\* stored parent lists both new ids.
NoLostAppend ==
    \A t \in Threads : \A u \in Threads \ {t} :
        (/\ threads[t].pc = "returned" /\ threads[u].pc = "returned"
         /\ threads[t].overlapped /\ threads[u].overlapped
         /\ threads[t].op = threads[u].op
         /\ ParentKey(threads[t]) = ParentKey(threads[u]))
            => {threads[t].id, threads[u].id} \subseteq ParentIds(threads[t])

====
